---------------------------- MODULE Spec2Model ----------------------------
(***************************************************************************)
(* Model of gpui-app/src/main.rs of clipz: the backend handle with its two *)
(* pump threads (pump_commands, pump_messages), the typed protocol         *)
(* (BackendMessage, Entry), and the view state of ClipzApp with its        *)
(* handlers (render/poll_backend, select_entry, remove, clear, the key     *)
(* handler) and the teardown of the handle (Drop).                         *)
(*                                                                         *)
(* Strings that the code inspects (entry contents, the search text) are    *)
(* sequences of one-character strings; Option<usize> is the empty set or a *)
(* singleton.  Entry.timestamp and Entry.entry_type are carried through    *)
(* every modelled operation unchanged and are left out of the records.     *)
(***************************************************************************)
EXTENDS Integers, Sequences, FiniteSets, TLC

\* ------------------------------------------------------------- bounds

\* Lines the backend writes to its output stream in one run.
MaxLines == 2
\* Calls of select_entry / remove / clear in one run.
MaxOps == 1

\* main.rs:178
CURRENT_ENTRY_ID == 1

\* ------------------------------------------------------ Option<usize>

None == {}
Some(i) == {i}
Unwrap(o) == CHOOSE i \in o : TRUE

\* ------------------------------------------------------------ strings

\* char::to_lowercase on the alphabet of the model
LowerChar(c) == CASE c = "A" -> "a" [] c = "B" -> "b" [] OTHER -> c

\* str::to_lowercase (main.rs:329, 332)
to_lowercase(s) == [i \in 1..Len(s) |-> LowerChar(s[i])]

\* str::contains (main.rs:332): some window of hay equals needle
contains(hay, needle) ==
    \E k \in 0..(Len(hay) - Len(needle)) :
        \A i \in 1..Len(needle) : hay[k + i] = needle[i]

\* ----------------------------------------------------------- protocol

\* One JSON entry object decodes to an Entry when id and content are
\* present; isCurrent defaults to false (main.rs:46-57).
EntryDecodable(j) == {"id", "content"} \subseteq DOMAIN j

DecodeEntry(j) ==
    [id |-> j.id, content |-> j.content,
     is_current |-> IF "isCurrent" \in DOMAIN j THEN j.isCurrent ELSE FALSE]

\* serde_json::from_str::<BackendMessage> (main.rs:28-44, 150): the
\* internally tagged enum.  A line without a type tag, or a known tag without
\* its fields, is an error; an unknown tag is Unknown.
DecodeOk(line) ==
    /\ "type" \in DOMAIN line
    /\ CASE line.type = "entries" ->
              /\ "data" \in DOMAIN line
              /\ \A i \in 1..Len(line.data) : EntryDecodable(line.data[i])
         [] line.type \in {"select-success", "remove-success"} ->
              "index" \in DOMAIN line
         [] line.type = "success" -> "message" \in DOMAIN line
         [] OTHER -> TRUE

Decode(line) ==
    CASE line.type = "entries" ->
            [tag |-> "Entries",
             data |-> [i \in 1..Len(line.data) |-> DecodeEntry(line.data[i])]]
      [] line.type = "select-success" ->
            [tag |-> "SelectSuccess", index |-> line.index]
      [] line.type = "remove-success" ->
            [tag |-> "RemoveSuccess", index |-> line.index]
      [] line.type = "success" -> [tag |-> "Success", message |-> line.message]
      [] line.type = "ready" -> [tag |-> "Ready"]
      [] OTHER -> [tag |-> "Unknown"]

\* ----------------------------------------------- lines the backend emits

JA == << "A", "b" >>
JB == << "b" >>
JC == << "c", "a" >>

\* Three entries with a repeated id, two of them current and the first
\* not; two entries with unique ids, none current (isCurrent left out); no
\* entry.
EntriesLines ==
    { [type |-> "entries",
       data |-> << [id |-> 2, content |-> JB, isCurrent |-> FALSE],
                   [id |-> 3, content |-> JC, isCurrent |-> TRUE],
                   [id |-> 2, content |-> JA, isCurrent |-> TRUE] >>],
      [type |-> "entries",
       data |-> << [id |-> 1, content |-> JA],
                   [id |-> 2, content |-> JB] >>],
      [type |-> "entries", data |-> << >>] }

TriggerLines == { [type |-> "ready"] }

\* The replies to select-entry, remove-entry and clear.
ReplyLines ==
    { [type |-> "select-success", index |-> 0],
      [type |-> "remove-success", index |-> 1],
      [type |-> "success", message |-> "ok"] }

\* An unknown tag; a line with no type tag.
OddLines == { [type |-> "bogus"], [garbage |-> TRUE] }

Lines == EntriesLines \cup TriggerLines \cup OddLines

\* The lines of Lines that are well-formed messages of the wire protocol (a
\* JSON object with a type tag and the fields of its tag, or an unknown tag).
WellFormedLines ==
    EntriesLines \cup TriggerLines \cup ReplyLines \cup { [type |-> "bogus"] }

\* Every kind of push: the four that trigger a refresh, a snapshot of two
\* entries and an unknown tag.
PushLines ==
    TriggerLines \cup ReplyLines
        \cup { [type |-> "entries",
                data |-> << [id |-> 1, content |-> JA, isCurrent |-> TRUE],
                            [id |-> 2, content |-> JB] >>],
               [type |-> "bogus"] }


\* ------------------------------------------------------- pure helpers

\* ClipzApp::filtered (main.rs:325-335): the iterator filter, front to back.
RECURSIVE filter_contains(_, _)
filter_contains(es, query) ==
    IF es = << >> THEN << >>
    ELSE IF contains(to_lowercase(Head(es).content), query)
         THEN << Head(es) >> \o filter_contains(Tail(es), query)
         ELSE filter_contains(Tail(es), query)

\* filtered with the query compared as typed (not lower-cased).
filtered_raw_query(es, s) ==
    IF s = << >> THEN es ELSE filter_contains(es, s)

filtered(es, s) ==
    IF s = << >> THEN es ELSE filter_contains(es, to_lowercase(s))

\* retain that drops only the first entry of the id.
RECURSIVE retain_not_first(_, _)
retain_not_first(es, id) ==
    IF es = << >> THEN << >>
    ELSE IF Head(es).id # id
         THEN << Head(es) >> \o retain_not_first(Tail(es), id)
         ELSE Tail(es)

\* Vec::retain(|e| e.id != id) (main.rs:405)
RECURSIVE retain_not(_, _)
retain_not(es, id) ==
    IF es = << >> THEN << >>
    ELSE IF Head(es).id # id
         THEN << Head(es) >> \o retain_not(Tail(es), id)
         ELSE retain_not(Tail(es), id)

\* The marking loop that sets the flag on the id and leaves the others.
mark_current_only_set(es, id) ==
    [i \in 1..Len(es) |->
        [es[i] EXCEPT !.is_current = (es[i].is_current \/ es[i].id = id)]]

\* for e in &mut entries { e.is_current = e.id == id } (main.rs:377-379)
mark_current(es, id) ==
    [i \in 1..Len(es) |-> [es[i] EXCEPT !.is_current = (es[i].id = id)]]

\* clear that keeps the first entry, current or not, when some entry is
\* current.
collapse_to_first(es) ==
    IF \E i \in 1..Len(es) : es[i].is_current THEN << es[1] >> ELSE << >>

\* entries.iter().find(|e| e.is_current) then vec![current] or clear()
\* (main.rs:390-394)
collapse_to_current(es) ==
    IF \E i \in 1..Len(es) : es[i].is_current
    THEN LET k == CHOOSE i \in 1..Len(es) :
                     /\ es[i].is_current
                     /\ \A j \in 1..(i - 1) : ~es[j].is_current
         IN  << es[k] >>
    ELSE << >>

\* A push that is appended to the snapshot instead of replacing it.
replace_snapshot_append(old, data) == old \o data

\* self.entries = data (main.rs:300)
replace_snapshot(old, data) == data

\* A cursor that goes back to the first row on every push.
clamp_focus_reset(f, view) ==
    IF f # None
    THEN IF view = << >> THEN None ELSE Some(0)
    ELSE f

\* The clamp with the length of the view as the last index.
clamp_focus_to_len(f, view) ==
    IF f # None /\ Unwrap(f) >= Len(view)
    THEN IF view = << >> THEN None ELSE Some(Len(view))
    ELSE f

\* The cursor after an Entries push (main.rs:301-310)
clamp_focus(f, view) ==
    IF f # None /\ Unwrap(f) >= Len(view)
    THEN IF view = << >> THEN None ELSE Some(Len(view) - 1)
    ELSE f

\* format!("select-entry:{id}"), format!("remove-entry:{id}")
\* (main.rs:380, 406)
select_command(id) == "select-entry:" \o ToString(id)
remove_command(id) == "remove-entry:" \o ToString(id)

\* The ids of the rows of a frame (render_entry, main.rs:421)
RowIds(view) == {view[i].id : i \in 1..Len(view)}

\* ---------------------------------------------------------------- state

VARIABLES
    backend,        \* ClipzApp.backend is Some (main.rs:221)
    entries,        \* ClipzApp.entries
    search,         \* ClipzApp.search
    focused_index,  \* ClipzApp.focused_index
    rendered,       \* the rows of the last frame (filtered_entries, main.rs:580)
    pc,             \* the UI context: idle, poll (in poll_backend's loop), refresh
                    \* (before a handler's refresh_entries), dropping, exited
    updated,        \* poll_backend's local `updated` while its loop runs
    cmdQ,           \* the command channel (cmd_tx / cmd_rx, main.rs:100)
    cmdOpen,        \* cmd_rx still exists
    wpc,            \* pump_commands: recv (in its loop), failed (a write or
                    \* flush failed, before the break), dead (returned)
    written,        \* the lines written to the backend's stdin
    flushed,        \* how many of them have been flushed
    stdout,         \* the lines the backend wrote that the reader has not read
    readerAlive,    \* pump_messages is running
    msgQ,           \* the message channel (msg_tx / msg_rx, main.rs:101)
    child,          \* the child process: running, reaped
    emitted,        \* history: for each line the backend has written so far,
                    \* whether it was a well-formed message
    nDelivered,     \* history: messages pump_messages has sent to the channel
    nOps,           \* mutating calls made so far
    sent,           \* history: the commands whose send returned Ok, in order
    last,           \* history: the last step of the UI context and the state before it
    lastPush,       \* history: the payload of the last Entries message poll applied
    synced,         \* history: no select/remove/clear since lastPush was applied
    emittedLines,   \* history: the lines the backend has written so far
    applied,        \* history: the messages poll_backend has applied so far
    backendList,    \* the backend process: the list it holds
    backendPos      \* the backend process: how many lines of its stdin it has
                    \* processed

vars == << backend, entries, search, focused_index, rendered, pc, updated,
           cmdQ, cmdOpen, wpc, written, flushed, stdout, readerAlive,
           msgQ, child, emitted, nDelivered, nOps, sent, last, lastPush, synced,
           emittedLines, applied, backendList, backendPos >>

uiVars == << entries, search, focused_index, rendered, updated >>
writerVars == << wpc, written, flushed >>
readerVars == << stdout, readerAlive, msgQ, emitted, nDelivered >>
histVars == << last, lastPush, synced >>

NoMsg == [tag |-> "none"]

\* The record of one step of the UI context: the handler that ran (op), the
\* operation it called (call: select, remove, clear or none) with its id, the
\* message it drained, and the state it started from.
Step(op, call, id, msg) ==
    [op |-> op, call |-> call, id |-> id, msg |-> msg, entries |-> entries,
     focused |-> focused_index, sent |-> Len(sent), cmdOpen |-> cmdOpen,
     result |-> FALSE]

\* BackendHandle::send (main.rs:113-117): the queue after the send; a send on
\* a channel whose receiver is gone returns SendFailed and enqueues nothing.
send(q, command) == IF cmdOpen THEN Append(q, command) ELSE q

\* The state ClipzApp::new returns (main.rs:274-291) with the given view
\* state: start() succeeded or not; with a backend the constructor has
\* already sent one get-entries.
NewApp(b, es, s) ==
    /\ backend = b
    /\ entries = es
    /\ search = s
    /\ focused_index = None
    /\ rendered = << >>
    /\ pc = "idle"
    /\ updated = FALSE
    /\ cmdQ = IF b THEN << "get-entries" >> ELSE << >>
    /\ sent = cmdQ
    /\ cmdOpen = b
    /\ wpc = IF b THEN "recv" ELSE "dead"
    /\ written = << >>
    /\ flushed = 0
    /\ stdout = << >>
    /\ readerAlive = b
    /\ msgQ = << >>
    /\ child = IF b THEN "running" ELSE "none"
    /\ emitted = << >>
    /\ nDelivered = 0
    /\ nOps = 0
    /\ last = [op |-> "new", call |-> "none", id |-> 0, msg |-> NoMsg,
               entries |-> es, focused |-> None, sent |-> 0,
               cmdOpen |-> b, result |-> FALSE]
    /\ lastPush = None
    /\ synced = TRUE
    /\ emittedLines = << >>
    /\ applied = << >>
    /\ backendPos = 0

\* ClipzApp::new: no entries, an empty search text (main.rs:277-278)
Init == (\E b \in BOOLEAN : NewApp(b, << >>, << >>)) /\ backendList = << >>

\* ------------------------------------------------- UI context: render

Running == pc # "exited"

\* Render::render is in poll_backend's loop, or may enter it: a frame is
\* drawn whenever the UI context is between handlers (main.rs:577, 294-296).
InPoll == pc \in {"idle", "poll"}

\* `updated` as the loop sees it: false on entry (main.rs:294)
PollUpdated == pc = "poll" /\ updated

\* A poll that also refreshes after an Entries message.
PollRecv_refresh_on_entries ==
    /\ InPoll
    /\ backend
    /\ msgQ # << >>
    /\ LET msg == Head(msgQ) IN
        /\ msgQ' = Tail(msgQ)
        /\ applied' = Append(applied, msg)
        /\ updated' = TRUE
        /\ pc' = "poll"
        /\ last' = Step("recv", "none", 0, msg)
        /\ CASE msg.tag = "Entries" ->
                  /\ entries' = replace_snapshot(entries, msg.data)
                  /\ focused_index' =
                         clamp_focus(focused_index, filtered(msg.data, search))
                  /\ lastPush' = Some(msg.data)
                  /\ synced' = TRUE
                  /\ cmdQ' = send(cmdQ, "get-entries")
                  /\ sent' = send(sent, "get-entries")
             [] msg.tag \in {"SelectSuccess", "RemoveSuccess", "Success", "Ready"} ->
                  /\ cmdQ' = send(cmdQ, "get-entries")
                  /\ sent' = send(sent, "get-entries")
                  /\ UNCHANGED << entries, focused_index, lastPush, synced >>
             [] OTHER ->
                  UNCHANGED << entries, focused_index, lastPush, synced, cmdQ, sent >>
    /\ UNCHANGED << backend, backendList, backendPos, emittedLines,
                    search, rendered, cmdOpen, child, nOps,
                    stdout, readerAlive, emitted, nDelivered >>
    /\ UNCHANGED writerVars

\* One turn of `while let Ok(msg) = backend.rx.try_recv()` (main.rs:296-320).
PollRecv ==
    /\ InPoll
    /\ backend
    /\ msgQ # << >>
    /\ LET msg == Head(msgQ) IN
        /\ msgQ' = Tail(msgQ)
        /\ applied' = Append(applied, msg)
        /\ updated' = TRUE
        /\ pc' = "poll"
        /\ last' = Step("recv", "none", 0, msg)
        /\ CASE msg.tag = "Entries" ->
                  /\ entries' = replace_snapshot(entries, msg.data)
                  /\ focused_index' =
                         clamp_focus(focused_index, filtered(msg.data, search))
                  /\ lastPush' = Some(msg.data)
                  /\ synced' = TRUE
                  /\ UNCHANGED << cmdQ, sent >>
             [] msg.tag \in {"SelectSuccess", "RemoveSuccess", "Success", "Ready"} ->
                  /\ cmdQ' = send(cmdQ, "get-entries")
                  /\ sent' = send(sent, "get-entries")
                  /\ UNCHANGED << entries, focused_index, lastPush, synced >>
             [] OTHER ->
                  UNCHANGED << entries, focused_index, lastPush, synced, cmdQ, sent >>
    /\ UNCHANGED << backend, backendList, backendPos, emittedLines,
                    search, rendered, cmdOpen, child, nOps,
                    stdout, readerAlive, emitted, nDelivered >>
    /\ UNCHANGED writerVars

\* try_recv finds the queue empty (or there is no backend): poll_backend
\* returns `updated` (kept in the step's record) and render goes on: the
\* cursor is set on the first non-empty frame, and the rows of the frame are
\* built (main.rs:321-322, 580-594).
PollReturn ==
    /\ InPoll
    /\ ~backend \/ msgQ = << >>
    /\ LET view == filtered(entries, search) IN
        /\ focused_index' = IF focused_index = None /\ view # << >>
                            THEN Some(0) ELSE focused_index
        /\ rendered' = view
    /\ pc' = "idle"
    /\ updated' = FALSE
    /\ last' = [Step("render", "none", 0, NoMsg) EXCEPT !.result = PollUpdated]
    /\ UNCHANGED << backend, backendList, backendPos, emittedLines, applied,
                    entries, search, cmdQ, cmdOpen, child,
                    nOps, sent, lastPush, synced >>
    /\ UNCHANGED << writerVars, readerVars >>

\* -------------------------------------- UI context: select, remove, clear

\* A handler of the last frame can run: a frame exists and the UI context
\* is between handlers.
CanHandle == pc = "idle" /\ last.op # "new"

\* A call that edits the snapshot and queues its command whether or not a
\* backend is attached.
Mutate_unguarded(op, call, id, newEntries, command) ==
    /\ nOps < MaxOps
    /\ nOps' = nOps + 1
    /\ last' = Step(op, call, id, NoMsg)
    /\ entries' = newEntries
    /\ cmdQ' = Append(cmdQ, command)
    /\ sent' = Append(sent, command)
    /\ synced' = FALSE
    /\ pc' = "refresh"
    /\ UNCHANGED << backend, backendList, backendPos, emittedLines, applied,
                    search, focused_index, rendered, updated,
                    cmdOpen, child, lastPush >>
    /\ UNCHANGED << writerVars, readerVars >>

\* The body of select_entry / remove / clear up to and including the first
\* send (main.rs:376-382, 389-397, 404-408); the refresh follows in Refresh.
\* Without a backend the call only notifies.
Mutate(op, call, id, newEntries, command) ==
    /\ nOps < MaxOps
    /\ nOps' = nOps + 1
    /\ last' = Step(op, call, id, NoMsg)
    /\ IF backend
       THEN /\ entries' = newEntries
            /\ cmdQ' = send(cmdQ, command)
            /\ sent' = send(sent, command)
            /\ synced' = FALSE
            /\ pc' = "refresh"
       ELSE UNCHANGED << entries, cmdQ, sent, synced, pc >>
    /\ UNCHANGED << backend, backendList, backendPos, emittedLines, applied,
                    search, focused_index, rendered, updated,
                    cmdOpen, child, lastPush >>
    /\ UNCHANGED << writerVars, readerVars >>

select_entry(op, id) ==
    Mutate(op, "select", id, mark_current(entries, id), select_command(id))

\* The row's on_click (main.rs:567-571)
ClickSelect(id) ==
    /\ CanHandle
    /\ id \in RowIds(rendered)
    /\ select_entry("click", id)

\* A remove affordance that is built for every row.
ClickRemove_any_row(id) ==
    /\ CanHandle
    /\ id \in RowIds(rendered)
    /\ Mutate("click", "remove", id, retain_not(entries, id), remove_command(id))

\* A remove that sends its command without the local edit.
ClickRemove_sends_only(id) ==
    /\ CanHandle
    /\ id \in RowIds(rendered)
    /\ id # CURRENT_ENTRY_ID
    /\ Mutate("click", "remove", id, entries, remove_command(id))

\* The remove affordance's on_click, built only for rows whose id is not
\* CURRENT_ENTRY_ID (main.rs:545-566), calling remove (main.rs:403-412)
ClickRemove(id) ==
    /\ CanHandle
    /\ id \in RowIds(rendered)
    /\ id # CURRENT_ENTRY_ID
    /\ Mutate("click", "remove", id, retain_not(entries, id), remove_command(id))

\* The Clear All button's on_click (main.rs:730-732), calling clear
\* (main.rs:388-401)
ClickClear ==
    /\ CanHandle
    /\ Mutate("click", "clear", 0, collapse_to_current(entries), "clear")

\* A handler that returns without its refresh_entries.
Refresh_skipped ==
    /\ pc = "refresh"
    /\ pc' = "idle"
    /\ UNCHANGED << backend, backendList, backendPos, emittedLines, applied,
                    cmdQ, sent, cmdOpen, child, nOps >>
    /\ UNCHANGED << uiVars, writerVars, readerVars, histVars >>

\* refresh_entries at the end of select_entry / remove / clear, then
\* cx.notify (main.rs:383, 398, 409; 337-341)
Refresh ==
    /\ pc = "refresh"
    /\ cmdQ' = send(cmdQ, "get-entries")
    /\ sent' = send(sent, "get-entries")
    /\ pc' = "idle"
    /\ UNCHANGED << backend, backendList, backendPos, emittedLines, applied,
                    cmdOpen, child, nOps >>
    /\ UNCHANGED << uiVars, writerVars, readerVars, histVars >>

\* ------------------------------------------------ UI context: the keys

\* A key that only records that it was pressed: the handler returned
\* without touching the state.
KeyNoop(op) ==
    /\ last' = Step(op, "none", 0, NoMsg)
    /\ UNCHANGED << backend, backendList, backendPos, emittedLines, applied,
                    pc, cmdQ, cmdOpen, child, nOps, sent, lastPush,
                    synced >>
    /\ UNCHANGED << uiVars, writerVars, readerVars >>

KeyMove(op, f) ==
    /\ focused_index' = f
    /\ last' = Step(op, "none", 0, NoMsg)
    /\ UNCHANGED << backend, backendList, backendPos, emittedLines, applied,
                    entries, search, rendered, updated, pc, cmdQ,
                    cmdOpen, child, nOps, sent, lastPush, synced >>
    /\ UNCHANGED << writerVars, readerVars >>

\* on_key_down, "up" (main.rs:610-628)
KeyUp ==
    /\ CanHandle
    /\ LET view == filtered(entries, search) IN
        IF view = << >> THEN KeyNoop("up")
        ELSE KeyMove("up",
                 IF focused_index # None
                 THEN IF Unwrap(focused_index) > 0
                      THEN Some(Unwrap(focused_index) - 1)
                      ELSE Some(Len(view) - 1)
                 ELSE Some(0))

\* on_key_down, "down" (main.rs:610-613, 629-641)
KeyDown ==
    /\ CanHandle
    /\ LET view == filtered(entries, search) IN
        IF view = << >> THEN KeyNoop("down")
        ELSE KeyMove("down",
                 IF focused_index # None
                 THEN IF Unwrap(focused_index) < Len(view) - 1
                      THEN Some(Unwrap(focused_index) + 1)
                      ELSE Some(0)
                 ELSE Some(0))

\* A confirm that passes the cursor's index where the entry's id belongs.
KeyEnter_index_as_id ==
    /\ CanHandle
    /\ LET view == filtered(entries, search) IN
        IF /\ view # << >>
           /\ focused_index # None
           /\ Unwrap(focused_index) < Len(view)
        THEN select_entry("enter", Unwrap(focused_index))
        ELSE KeyNoop("enter")

\* on_key_down, "enter" (main.rs:610-613, 642-648): filtered.get(idx)
KeyEnter ==
    /\ CanHandle
    /\ LET view == filtered(entries, search) IN
        IF /\ view # << >>
           /\ focused_index # None
           /\ Unwrap(focused_index) < Len(view)
        THEN select_entry("enter", view[Unwrap(focused_index) + 1].id)
        ELSE KeyNoop("enter")

\* ------------------------------------------------------------ teardown

\* Drop for BackendHandle, up to the sleep (main.rs:122-124)
DropQuit ==
    /\ pc = "idle"
    /\ backend
    /\ cmdQ' = send(cmdQ, "quit")
    /\ sent' = send(sent, "quit")
    /\ pc' = "dropping"
    /\ last' = Step("drop", "none", 0, NoMsg)
    /\ UNCHANGED << backend, backendList, backendPos, emittedLines, applied,
                    cmdOpen, child, nOps, lastPush, synced >>
    /\ UNCHANGED << uiVars, writerVars, readerVars >>

\* A teardown that kills the child only once quit has been written to it.
DropKill_after_quit_written ==
    /\ pc = "dropping"
    /\ \E i \in 1..Len(written) : written[i] = "quit"
    /\ child' = "reaped"
    /\ pc' = "exited"
    /\ UNCHANGED << backend, backendList, backendPos, emittedLines, applied,
                    cmdQ, cmdOpen, nOps, sent >>
    /\ UNCHANGED << uiVars, writerVars, readerVars, histVars >>

\* child.kill(), child.wait(), std::process::exit(0) (main.rs:125-128)
DropKill ==
    /\ pc = "dropping"
    /\ child' = "reaped"
    /\ pc' = "exited"
    /\ UNCHANGED << backend, backendList, backendPos, emittedLines, applied,
                    cmdQ, cmdOpen, nOps, sent >>
    /\ UNCHANGED << uiVars, writerVars, readerVars, histVars >>

\* ------------------------------------------------------- pump_commands

\* A channel that yields its newest command.
next_command_newest(q) == q[Len(q)]

\* What `for command in rx` yields next: the oldest command of the channel
\* (main.rs:133)
next_command(q) == Head(q)

\* A loop that goes on writing after a failed write or flush.
WriterStep_after_failure ==
    /\ Running
    /\ wpc # "dead"
    /\ cmdQ # << >>
    /\ cmdQ' = Tail(cmdQ)
    /\ written' = Append(written, next_command(cmdQ))
    /\ flushed' = Len(written) + 1
    /\ UNCHANGED << backend, backendList, backendPos, emittedLines, applied,
                    pc, cmdOpen, child, nOps, sent, wpc >>
    /\ UNCHANGED << uiVars, readerVars, histVars >>

\* One turn of `for command in rx` (main.rs:133-142): the next command is
\* taken, written as one line and flushed.
WriterStep ==
    /\ Running
    /\ wpc = "recv"
    /\ cmdQ # << >>
    /\ cmdQ' = Tail(cmdQ)
    /\ written' = Append(written, next_command(cmdQ))
    /\ flushed' = Len(written) + 1
    /\ UNCHANGED << backend, backendList, backendPos, emittedLines, applied,
                    pc, cmdOpen, child, nOps, sent, wpc >>
    /\ UNCHANGED << uiVars, readerVars, histVars >>

\* A turn whose writeln! fails (main.rs:133-136): the command is taken from
\* the channel and nothing is written; the loop is about to break.
WriterWriteFail ==
    /\ Running
    /\ wpc = "recv"
    /\ cmdQ # << >>
    /\ cmdQ' = Tail(cmdQ)
    /\ wpc' = "failed"
    /\ UNCHANGED << backend, backendList, backendPos, emittedLines, applied,
                    pc, cmdOpen, child, nOps, sent,
                    written, flushed >>
    /\ UNCHANGED << uiVars, readerVars, histVars >>

\* A turn whose writeln! succeeds and whose flush fails (main.rs:133-140)
WriterFlushFail ==
    /\ Running
    /\ wpc = "recv"
    /\ cmdQ # << >>
    /\ cmdQ' = Tail(cmdQ)
    /\ written' = Append(written, next_command(cmdQ))
    /\ wpc' = "failed"
    /\ UNCHANGED << backend, backendList, backendPos, emittedLines, applied,
                    pc, cmdOpen, child, nOps, sent,
                    flushed >>
    /\ UNCHANGED << uiVars, readerVars, histVars >>

\* The break after a failed write or flush (main.rs:136, 140, 142-143):
\* pump_commands returns and rx is dropped with whatever is still queued.
WriterExit ==
    /\ Running
    /\ wpc = "failed"
    /\ wpc' = "dead"
    /\ cmdOpen' = FALSE
    /\ cmdQ' = << >>
    /\ UNCHANGED << backend, backendList, backendPos, emittedLines, applied,
                    pc, child, nOps, sent, written,
                    flushed >>
    /\ UNCHANGED << uiVars, readerVars, histVars >>

\* ------------------------------------------------------- pump_messages

\* The backend writes one line to its output stream; the stream's read end
\* exists as long as pump_messages holds it.
BackendEmit(line) ==
    /\ Running
    /\ child = "running"
    /\ readerAlive
    /\ Len(emitted) < MaxLines
    /\ emitted' = Append(emitted, line \in WellFormedLines)
    /\ stdout' = Append(stdout, line)
    /\ emittedLines' = Append(emittedLines, line)
    /\ UNCHANGED << backend, backendList, backendPos, applied,
                    pc, cmdQ, cmdOpen, child, nOps, sent, readerAlive,
                    msgQ, nDelivered >>
    /\ UNCHANGED << uiVars, writerVars, histVars >>

\* A reader that puts a message in front of the undrained ones.
ReaderLine_front ==
    /\ Running
    /\ readerAlive
    /\ stdout # << >>
    /\ stdout' = Tail(stdout)
    /\ IF DecodeOk(Head(stdout))
       THEN /\ msgQ' = << Decode(Head(stdout)) >> \o msgQ
            /\ nDelivered' = nDelivered + 1
       ELSE UNCHANGED << msgQ, nDelivered >>
    /\ UNCHANGED << backend, backendList, backendPos, emittedLines, applied,
                    pc, cmdQ, cmdOpen, child, nOps, sent, readerAlive,
                    emitted >>
    /\ UNCHANGED << uiVars, writerVars, histVars >>

\* A reader on a channel that holds one message: it waits while a message
\* is undrained.
ReaderLine_bounded ==
    /\ Running
    /\ readerAlive
    /\ stdout # << >>
    /\ ~DecodeOk(Head(stdout)) \/ msgQ = << >>
    /\ stdout' = Tail(stdout)
    /\ IF DecodeOk(Head(stdout))
       THEN /\ msgQ' = Append(msgQ, Decode(Head(stdout)))
            /\ nDelivered' = nDelivered + 1
       ELSE UNCHANGED << msgQ, nDelivered >>
    /\ UNCHANGED << backend, backendList, backendPos, emittedLines, applied,
                    pc, cmdQ, cmdOpen, child, nOps, sent, readerAlive,
                    emitted >>
    /\ UNCHANGED << uiVars, writerVars, histVars >>

\* A reader that treats a line it cannot decode as fatal.
ReaderLine_strict ==
    /\ Running
    /\ readerAlive
    /\ stdout # << >>
    /\ stdout' = Tail(stdout)
    /\ IF DecodeOk(Head(stdout))
       THEN /\ msgQ' = Append(msgQ, Decode(Head(stdout)))
            /\ nDelivered' = nDelivered + 1
            /\ UNCHANGED readerAlive
       ELSE /\ readerAlive' = FALSE
            /\ UNCHANGED << msgQ, nDelivered >>
    /\ UNCHANGED << backend, backendList, backendPos, emittedLines, applied,
                    pc, cmdQ, cmdOpen, child, nOps, sent, emitted >>
    /\ UNCHANGED << uiVars, writerVars, histVars >>

\* One turn of `for line in reader.lines()` with Ok(line) (main.rs:147-155)
ReaderLine ==
    /\ Running
    /\ readerAlive
    /\ stdout # << >>
    /\ stdout' = Tail(stdout)
    /\ IF DecodeOk(Head(stdout))
       THEN /\ msgQ' = Append(msgQ, Decode(Head(stdout)))
            /\ nDelivered' = nDelivered + 1
       ELSE UNCHANGED << msgQ, nDelivered >>
    /\ UNCHANGED << backend, backendList, backendPos, emittedLines, applied,
                    pc, cmdQ, cmdOpen, child, nOps, sent, readerAlive,
                    emitted >>
    /\ UNCHANGED << uiVars, writerVars, histVars >>

\* A read error, or the end of the stream (main.rs:156-159, 147):
\* pump_messages returns and drops the stream with what it has not read.
ReaderStop ==
    /\ Running
    /\ readerAlive
    /\ readerAlive' = FALSE
    /\ stdout' = << >>
    /\ UNCHANGED << backend, backendList, backendPos, emittedLines, applied,
                    pc, cmdQ, cmdOpen, child, nOps, sent, msgQ,
                    emitted, nDelivered >>
    /\ UNCHANGED << uiVars, writerVars, histVars >>

\* ------------------------------------------------------- specification

Ids == {1, 2, 3}

Next ==
    \/ PollRecv
    \/ PollReturn
    \/ \E id \in Ids : ClickSelect(id)
    \/ \E id \in Ids : ClickRemove(id)
    \/ ClickClear
    \/ Refresh
    \/ KeyUp
    \/ KeyDown
    \/ KeyEnter
    \/ WriterStep
    \/ \E line \in Lines : BackendEmit(line)
    \/ ReaderLine

\* The streams to and from the backend fail.
Fault ==
    \/ WriterWriteFail
    \/ WriterFlushFail
    \/ WriterExit
    \/ ReaderStop

\* The handle is destroyed.
Teardown ==
    \/ DropQuit
    \/ DropKill

NextFull == Next \/ Fault \/ Teardown

\* The program in operation: both streams work and the handle lives.
Spec == Init /\ [][Next]_vars

\* The program with stream failures and the teardown of the handle.
SpecFull == Init /\ [][NextFull]_vars

\* The program in operation with a backend that emits every kind of push.
NextPush ==
    \/ PollRecv
    \/ PollReturn
    \/ \E id \in Ids : ClickSelect(id)
    \/ \E id \in Ids : ClickRemove(id)
    \/ ClickClear
    \/ Refresh
    \/ KeyUp
    \/ KeyDown
    \/ KeyEnter
    \/ WriterStep
    \/ \E line \in PushLines : BackendEmit(line)
    \/ ReaderLine

SpecPush == Init /\ [][NextPush]_vars

\* ------------------------------------------- a backend that answers

\* The lists the backend may hold (JSON entries, as it writes them).
BackendLists ==
    { << >>,
      << [id |-> 2, content |-> JB, isCurrent |-> TRUE] >>,
      << [id |-> 1, content |-> JA, isCurrent |-> TRUE],
         [id |-> 2, content |-> JB, isCurrent |-> FALSE] >> }

\* The backend's reply to a mutating command.
ReplyTo(command) ==
    IF command = "clear" THEN [type |-> "success", message |-> "ok"]
    ELSE IF command \in {select_command(id) : id \in Ids}
         THEN [type |-> "select-success", index |-> 0]
         ELSE [type |-> "remove-success", index |-> 0]

\* The backend writes a line of the protocol to its output stream.
BackendWrites(line) ==
    /\ stdout' = Append(stdout, line)
    /\ emitted' = Append(emitted, TRUE)
    /\ emittedLines' = Append(emittedLines, line)

\* The backend processes the next line of its input stream: it answers
\* get-entries with an Entries push of the list it holds; on select-entry,
\* remove-entry or clear it changes its list or leaves it (the command
\* accepted, rejected, or other clipboard activity) and replies or not.
BackendServe ==
    /\ Running
    /\ child = "running"
    /\ readerAlive
    /\ backendPos < flushed
    /\ backendPos' = backendPos + 1
    /\ LET command == written[backendPos + 1] IN
        IF command = "get-entries"
        THEN /\ BackendWrites([type |-> "entries", data |-> backendList])
             /\ UNCHANGED backendList
        ELSE /\ \E l \in BackendLists : backendList' = l
             /\ \/ BackendWrites(ReplyTo(command))
                \/ UNCHANGED << stdout, emitted, emittedLines >>
    /\ UNCHANGED << backend, applied, pc, cmdQ, cmdOpen, child, nOps, sent,
                    readerAlive, msgQ, nDelivered >>
    /\ UNCHANGED << uiVars, writerVars, histVars >>

LiveInit ==
    /\ NewApp(TRUE, << >>, << >>)
    /\ backendList \in BackendLists

NextLive ==
    \/ PollRecv
    \/ PollReturn
    \/ \E id \in Ids : ClickSelect(id)
    \/ \E id \in Ids : ClickRemove(id)
    \/ ClickClear
    \/ Refresh
    \/ KeyUp
    \/ KeyDown
    \/ KeyEnter
    \/ WriterStep
    \/ BackendServe
    \/ ReaderLine

\* Both pumps and the backend keep running, every frame polls, and a handler
\* that has started returns.
Fairness ==
    /\ WF_vars(PollRecv)
    /\ WF_vars(PollReturn)
    /\ WF_vars(Refresh)
    /\ WF_vars(WriterStep)
    /\ WF_vars(BackendServe)
    /\ WF_vars(ReaderLine)

SpecLive == LiveInit /\ [][NextLive]_vars /\ Fairness

\* ------------------------------------------------ the filter in isolation

\* Rows of a snapshot handed to filtered.
MaxRows == 2

ViewEntries ==
    { [id |-> 1, content |-> JA, is_current |-> FALSE],
      [id |-> 2, content |-> JB, is_current |-> FALSE],
      [id |-> 3, content |-> JC, is_current |-> FALSE],
      [id |-> 4, content |-> << >>, is_current |-> FALSE] }

ViewSnapshots == UNION { [1..n -> ViewEntries] : n \in 0..MaxRows }

Searches ==
    { << >>, << "a" >>, << "B" >>, << "a", "B" >>, << "c", "a" >>,
      << "b", "c" >> }

\* A view state with any snapshot and any search text.
FilterInit ==
    /\ \E es \in ViewSnapshots, s \in Searches : NewApp(TRUE, es, s)
    /\ backendList = << >>

\* The handlers that compute the filtered view: the frame and the two
\* navigation keys.
FilterNext ==
    \/ PollReturn
    \/ KeyUp
    \/ KeyDown

SpecFilter == FilterInit /\ [][FilterNext]_vars

\* ----------------------------------------------------------- the claims

\* Two letters that differ at most in case.
SameLetter(c, d) == c = d \/ {c, d} = {"a", "A"} \/ {c, d} = {"b", "B"}

\* text occurs in content when case is ignored.
OccursIgnoringCase(content, text) ==
    \E k \in 0..(Len(content) - Len(text)) :
        \A i \in 1..Len(text) : SameLetter(content[k + i], text[i])

\* The filtered view as the specification describes it.
FilteredView(es, s) ==
    IF s = << >> THEN es
    ELSE SelectSeq(es, LAMBDA e : OccursIgnoringCase(e.content, s))

IdsOf(es) == {es[i].id : i \in 1..Len(es)}
CurrentAt(es) == {i \in 1..Len(es) : es[i].is_current}
UniqueIds(es) == \A i, j \in 1..Len(es) : es[i].id = es[j].id => i = j

\* The wire text of the command of a mutating call.
ExpectedCommand(call, id) ==
    CASE call = "clear" -> "clear"
      [] call = "select" /\ id = 1 -> "select-entry:1"
      [] call = "select" /\ id = 2 -> "select-entry:2"
      [] call = "select" /\ id = 3 -> "select-entry:3"
      [] call = "remove" /\ id = 1 -> "remove-entry:1"
      [] call = "remove" /\ id = 2 -> "remove-entry:2"
      [] call = "remove" /\ id = 3 -> "remove-entry:3"
      [] OTHER -> "?"

MutatingCommands ==
    {ExpectedCommand(c, i) : c \in {"select", "remove"}, i \in Ids} \cup {"clear"}

\* poll_backend has returned and nothing ran on the UI context since.
PollReturned == last.op = "render"

\* C1 as stated: whenever poll has drained every pending message, the local
\* snapshot equals the payload of the most recently received Entries
\* message, element for element and in its received order.
C1_SnapshotIsLastPush ==
    (PollReturned /\ lastPush # None) => entries = Unwrap(lastPush)

\* C1 amended: whenever poll has drained every pending message and no
\* select, remove or clear call was made since the most recently received
\* Entries message was applied, the local snapshot equals the payload of
\* that message, element for element and in its received order.
C1_SnapshotIsLastPushUnlessMutated ==
    (PollReturned /\ lastPush # None /\ synced) => entries = Unwrap(lastPush)

\* A mutating call was made, a later Entries push was drained, and poll has
\* returned with a non-empty snapshot.
C1_Witness ==
    /\ PollReturned
    /\ lastPush # None
    /\ synced
    /\ nOps > 0
    /\ entries # << >>

\* C2: right after a state-mutating call returns (select, remove, clear,
\* poll, move-previous, move-next), focusedIndex is None or strictly less
\* than the length of the filtered view of the current snapshot.
C2_FocusInBounds ==
    (pc = "idle" /\ last.op \in {"click", "enter", "render", "up", "down"})
        => \/ focused_index = None
           \/ Unwrap(focused_index) < Len(FilteredView(entries, search))

\* C3: the lines written to the backend's input stream are always a prefix
\* of the successfully enqueued commands, in the order of their send calls,
\* and whenever the writer is about to dequeue a command every line written
\* so far has been flushed.
C3_WrittenInSendOrder ==
    /\ Len(written) <= Len(sent)
    /\ \A i \in 1..Len(written) : written[i] = sent[i]
    /\ flushed <= Len(written)
    /\ wpc = "recv" => flushed = Len(written)

\* Two different commands were written in the order they were sent while a
\* third one is still queued.
C3_Witness ==
    /\ Len(written) >= 2
    /\ written[1] # written[2]
    /\ cmdQ # << >>
    /\ flushed = Len(written)

\* How many of the first n lines the backend wrote were well-formed.
RECURSIVE WellFormedAmong(_, _)
WellFormedAmong(flags, n) ==
    IF n = 0 THEN 0
    ELSE WellFormedAmong(flags, n - 1) + (IF flags[n] THEN 1 ELSE 0)

\* C4: while the stream stays open, a line with an unrecognized type tag or
\* a line that fails to decode never stops the reader: the reader is still
\* running and can take the next line, the messages it has delivered are as
\* many as the well-formed lines among the lines it has read (every
\* well-formed line delivers one message, an undecodable line none), and an
\* Unknown message changes neither the snapshot nor the cursor.
C4_BadLineNeverStopsReader ==
    /\ backend => readerAlive
    /\ stdout # << >> => ENABLED ReaderLine
    /\ nDelivered = WellFormedAmong(emitted, Len(emitted) - Len(stdout))
    /\ (last.op = "recv" /\ last.msg.tag = "Unknown")
           => entries = last.entries /\ focused_index = last.focused

\* The backend wrote an undecodable line and then a well-formed one; the
\* reader has read both and delivered one message.
C4_Witness ==
    /\ emitted = << FALSE, TRUE >>
    /\ stdout = << >>
    /\ nDelivered = 1
    /\ readerAlive

\* poll_backend has just drained an Entries message.
DrainedEntries == last.op = "recv" /\ last.msg.tag = "Entries"

\* C5: when poll drains an Entries push and the cursor is greater than or
\* equal to the length of the newly filtered view, the cursor becomes that
\* length minus one if the view is non-empty and None if it is empty.
C5_ClampOnPush ==
    LET view == FilteredView(entries, search) IN
    (/\ DrainedEntries
     /\ last.focused # None
     /\ Unwrap(last.focused) >= Len(view))
        => focused_index = IF view = << >> THEN None ELSE Some(Len(view) - 1)

\* The cursor was at index 2 and a push of two entries moved it to index 1.
C5_Witness ==
    /\ DrainedEntries
    /\ last.focused = Some(2)
    /\ Len(FilteredView(entries, search)) = 2
    /\ focused_index = Some(1)

\* C6: with a backend attached, remove(id) immediately turns the snapshot
\* into the previous snapshot without the entries whose id is id, the other
\* entries unchanged and in their previous order.
C6_RemoveDeletesId ==
    (last.call = "remove" /\ backend)
        => entries = SelectSeq(last.entries, LAMBDA e : e.id # last.id)

\* remove deleted two entries of the same id and kept another one.
C6_Witness ==
    /\ last.call = "remove"
    /\ backend
    /\ Len(last.entries) = Len(entries) + 2
    /\ entries # << >>

\* C7: with a backend attached, clear immediately collapses the snapshot to
\* the first entry that carries isCurrent, or to the empty sequence when no
\* entry does.
C7_ClearKeepsCurrent ==
    (last.call = "clear" /\ backend)
        => IF CurrentAt(last.entries) = {}
           THEN entries = << >>
           ELSE \E k \in CurrentAt(last.entries) :
                    /\ \A j \in CurrentAt(last.entries) : k <= j
                    /\ entries = << last.entries[k] >>

\* clear ran on a snapshot with two current entries, the first entry not
\* current.
C7_Witness ==
    /\ last.call = "clear"
    /\ backend
    /\ Cardinality(CurrentAt(last.entries)) = 2
    /\ 1 \notin CurrentAt(last.entries)
    /\ Len(entries) = 1

\* C8: with a backend attached, select(id) immediately sets isCurrent on
\* every entry whose id is id and clears it on every other entry, without
\* adding, removing or reordering entries; with unique ids at most one
\* entry is current afterwards, and none is when id is not in the snapshot.
C8_SelectMarksId ==
    (last.call = "select" /\ backend)
        => /\ Len(entries) = Len(last.entries)
           /\ \A i \in 1..Len(entries) :
                  /\ entries[i].id = last.entries[i].id
                  /\ entries[i].content = last.entries[i].content
                  /\ entries[i].is_current = (last.entries[i].id = last.id)
           /\ UniqueIds(last.entries) => Cardinality(CurrentAt(entries)) <= 1
           /\ last.id \notin IdsOf(last.entries) => CurrentAt(entries) = {}

\* select ran on a snapshot in which an entry of another id was current.
C8_Witness ==
    /\ last.call = "select"
    /\ backend
    /\ \E i \in CurrentAt(last.entries) : last.entries[i].id # last.id
    /\ CurrentAt(entries) # {}

\* C9: with a backend attached and the command channel open, a select,
\* remove or clear call that has returned enqueued exactly two commands, its
\* own command and then get-entries; and on the wire every mutating command
\* that is followed by another line is followed by get-entries.
C9_MutationThenRefresh ==
    /\ (pc = "idle" /\ last.call # "none" /\ backend /\ cmdOpen)
           => /\ Len(sent) = last.sent + 2
              /\ sent[last.sent + 1] = ExpectedCommand(last.call, last.id)
              /\ sent[last.sent + 2] = "get-entries"
    /\ \A i \in 1..(Len(written) - 1) :
           written[i] \in MutatingCommands => written[i + 1] = "get-entries"

\* remove(2) has returned and remove-entry:2 then get-entries are on the
\* wire.
C9_Witness ==
    /\ pc = "idle"
    /\ last.call = "remove"
    /\ last.id = 2
    /\ \E i \in 1..(Len(written) - 1) :
           written[i] = "remove-entry:2" /\ written[i + 1] = "get-entries"

\* C10: the filtered view is the snapshot unchanged when the search text is
\* empty, and otherwise the subsequence, in snapshot order, of the entries
\* whose content contains the search text when case is ignored.
C10_FilteredView ==
    PollReturned => rendered = FilteredView(entries, search)

\* A frame of a two-entry snapshot whose second entry alone matches a
\* search text that differs from it in case.
C10_Witness ==
    /\ PollReturned
    /\ search = << "a", "B" >>
    /\ Len(entries) = 2
    /\ entries[1].content = JB
    /\ rendered = << entries[2] >>

\* The messages of the decodable lines among ls, in the order of ls.
DecodedOf(ls) ==
    LET ok == SelectSeq(ls, DecodeOk)
    IN  [i \in 1..Len(ok) |-> Decode(ok[i])]

\* C11: the messages poll has applied, then the messages still queued, then
\* the messages of the decodable lines the reader has not read yet, are
\* exactly the messages of the decodable lines the backend has emitted, in
\* the order of emission: every message is applied after the messages of
\* the lines emitted before it, none is applied twice and none is skipped;
\* and the message a turn of poll applies is the oldest one not yet applied.
C11_AppliedInEmittedOrder ==
    /\ applied \o msgQ \o DecodedOf(stdout) = DecodedOf(emittedLines)
    /\ last.op = "recv" => last.msg = applied[Len(applied)]

\* Two different messages have been applied, the backend having emitted
\* their lines in that order.
C11_Witness ==
    /\ Len(applied) = 2
    /\ applied[1] # applied[2]
    /\ applied = DecodedOf(emittedLines)

RefreshTriggers == {"SelectSuccess", "RemoveSuccess", "Success", "Ready"}

\* C12: a turn of poll that drains a SelectSuccess, RemoveSuccess, Success
\* or Ready message enqueues exactly one command, get-entries (the command
\* channel being open), and leaves the snapshot and the cursor as they
\* were; a turn that drains an Entries or Unknown message enqueues nothing.
C12_TriggersRefreshOnly ==
    last.op = "recv" =>
        IF last.msg.tag \in RefreshTriggers
        THEN /\ last.cmdOpen => /\ Len(sent) = last.sent + 1
                                /\ sent[Len(sent)] = "get-entries"
             /\ entries = last.entries
             /\ focused_index = last.focused
        ELSE /\ last.msg.tag \in {"Entries", "Unknown"}
             /\ Len(sent) = last.sent

\* poll drained a SelectSuccess message while the snapshot had entries and
\* the cursor was set, and enqueued one get-entries.
C12_Witness ==
    /\ last.op = "recv"
    /\ last.msg.tag = "SelectSuccess"
    /\ last.entries # << >>
    /\ last.focused # None
    /\ Len(sent) = last.sent + 1
    /\ sent[Len(sent)] = "get-entries"

\* The snapshot the backend's list decodes to.
BackendSnapshot == [i \in 1..Len(backendList) |-> DecodeEntry(backendList[i])]

\* The backend has processed every command sent to it and the snapshot is
\* its list.
InSync ==
    /\ backendPos = Len(sent)
    /\ entries = BackendSnapshot

\* C13: with both pumps alive, the backend answering every get-entries
\* with its list, and poll running again and again, once select, remove or
\* clear calls have been made and no further one follows, the snapshot
\* eventually equals the backend's list as it stands after all the commands
\* of those calls, and stays equal to it.
C13_EventuallyConsistent == <>[](nOps > 0 => InSync)

\* A mutating call was made, every command has been processed and every
\* push applied: the snapshot is the backend's non-empty list, an earlier
\* push having carried another list.
C13_Witness ==
    /\ nOps > 0
    /\ InSync
    /\ entries # << >>
    /\ cmdQ = << >>
    /\ stdout = << >>
    /\ msgQ = << >>
    /\ \E i \in 1..Len(applied) :
           applied[i].tag = "Entries" /\ applied[i].data # entries

\* C14: when no backend is attached, in every reachable state the snapshot
\* is empty and as it was before the last call, no command has been
\* enqueued or written, and a poll that has returned reported no update.
C14_NoBackendNoOps ==
    ~backend =>
        /\ entries = << >>
        /\ entries = last.entries
        /\ sent = << >>
        /\ cmdQ = << >>
        /\ written = << >>
        /\ PollReturned => ~last.result

\* Without a backend, clear has been called and a later poll has returned.
C14_Witness ==
    /\ ~backend
    /\ nOps > 0
    /\ PollReturned
    /\ ~last.result

\* C15: a select, remove or clear call made on a closed command channel
\* (its send fails with SendFailed) enqueues no command and leaves the
\* snapshot as it was before the call.
C15_FailedSendDropsCall ==
    (backend /\ last.call # "none" /\ ~last.cmdOpen)
        => /\ Len(sent) = last.sent
           /\ entries = last.entries

\* C16 as stated: once a write or flush has failed, nothing more is written
\* and every later send returns SendFailed (enqueues nothing); and send
\* returns SendFailed only when the writer's receiving side is gone.
C16_WriterStopsForGood ==
    /\ [](~cmdOpen => wpc = "dead")
    /\ [][wpc # "recv" => /\ wpc' # "recv"
                          /\ written' = written
                          /\ sent' = sent]_vars

\* C16 amended: once a write or flush has failed the writer never writes
\* again and what is queued or sent afterwards is never written; once the
\* writer has returned (its receiving side dropped) every send returns
\* SendFailed, enqueues nothing and does not abort the caller; and send
\* returns SendFailed only when the writer's receiving side is gone: a call
\* made while it exists enqueues its command.
C16_WriterStopsThenSendFails ==
    /\ [](~cmdOpen <=> wpc = "dead")
    /\ [](wpc = "dead" => cmdQ = << >>)
    /\ []((backend /\ last.call # "none" /\ last.cmdOpen)
              => Len(sent) > last.sent)
    /\ [][wpc # "recv" => /\ wpc' # "recv"
                          /\ written' = written
                          /\ flushed' = flushed]_vars
    /\ [][~cmdOpen => /\ ~cmdOpen'
                      /\ sent' = sent
                      /\ cmdQ' = cmdQ]_vars

\* A flush failed with a command written but not flushed, the writer has
\* returned, and a later call's send failed: nothing was enqueued.
C16_Witness ==
    /\ wpc = "dead"
    /\ flushed < Len(written)
    /\ backend
    /\ last.call # "none"
    /\ ~last.cmdOpen
    /\ pc = "idle"
    /\ Len(sent) = last.sent
    /\ Len(sent) > Len(written)

\* C17: whenever the backend has emitted a line the reader has not read,
\* the reader can read, decode and enqueue it, whatever the number of
\* undrained messages and whatever the UI context is doing; and poll never
\* waits: in its loop it can always take a message or return, and it can
\* return as soon as it finds the queue empty.
C17_ReaderNeverBlocked ==
    /\ (readerAlive /\ stdout # << >>) => ENABLED ReaderLine
    /\ InPoll => ENABLED PollRecv \/ ENABLED PollReturn
    /\ (InPoll /\ msgQ = << >>) => ENABLED PollReturn

\* A decodable line is unread while a message is still undrained.
C17_Witness ==
    /\ readerAlive
    /\ stdout # << >>
    /\ DecodeOk(Head(stdout))
    /\ msgQ # << >>

\* The handle is being destroyed or has been.
InDrop == pc \in {"dropping", "exited"}

\* C18: quit is enqueued only by the teardown and is then the last command
\* ever enqueued, after every command sent before (when the channel is
\* still open); the teardown then kills and reaps the child, which happens
\* exactly once, after the quit attempt, and can happen whether or not quit
\* was enqueued or written.
C18_QuitThenKill ==
    /\ [](\A i \in 1..Len(sent) :
              sent[i] = "quit" => (i = Len(sent) /\ InDrop))
    /\ []((InDrop /\ last.cmdOpen)
              => (Len(sent) = last.sent + 1 /\ sent[Len(sent)] = "quit"))
    /\ [](InDrop => last.op = "drop")
    /\ [](backend => (child = "reaped" <=> pc = "exited"))
    /\ [](pc = "dropping" => ENABLED DropKill)
    /\ [][InDrop => sent' = sent]_vars
    /\ [][child' # child => /\ child = "running"
                            /\ child' = "reaped"
                            /\ pc = "dropping"]_vars

\* The child was reaped after a teardown whose quit was enqueued behind two
\* other commands and never written.
C18_Witness ==
    /\ pc = "exited"
    /\ child = "reaped"
    /\ Len(sent) >= 3
    /\ sent[Len(sent)] = "quit"
    /\ cmdQ # << >>
    /\ cmdQ[Len(cmdQ)] = "quit"

\* The child was reaped after a teardown whose quit could not be enqueued.
C18_WitnessSendFailed ==
    /\ pc = "exited"
    /\ child = "reaped"
    /\ ~last.cmdOpen
    /\ \A i \in 1..Len(sent) : sent[i] # "quit"

\* A step of the key handler for "up" or "down".
KeyStep == last' # last /\ last'.op \in {"up", "down"}

\* Everything but the cursor and the record of the step is left as it was.
OnlyCursorMay ==
    UNCHANGED << backend, entries, search, rendered, pc, updated, cmdQ,
                 cmdOpen, wpc, written, flushed, stdout, readerAlive, msgQ,
                 child, emitted, nDelivered, nOps, sent, lastPush, synced,
                 emittedLines, applied, backendList, backendPos >>

\* C19: with N the size of the filtered view, move-previous takes cursor 0
\* to N-1 and any other cursor i to i-1, move-next takes cursor N-1 to 0
\* and any other cursor i to i+1, both set an unset cursor to 0, and both
\* leave the cursor and all other state unchanged when N = 0.
C19_CursorMoves ==
    [][KeyStep =>
        LET N == Len(FilteredView(entries, search))
            i == Unwrap(focused_index)
        IN  /\ OnlyCursorMay
            /\ focused_index' =
                   IF N = 0 THEN focused_index
                   ELSE IF focused_index = None THEN Some(0)
                   ELSE IF last'.op = "up"
                        THEN IF i = 0 THEN Some(N - 1) ELSE Some(i - 1)
                        ELSE IF i = N - 1 THEN Some(0) ELSE Some(i + 1)]_vars

\* A step of the key handler for "enter".
EnterStep == last' # last /\ last'.op = "enter"

\* C20: confirm resolves the cursor against the filtered view of the moment
\* of the key press: with the cursor on an entry of that view it calls
\* select on that entry's id and the command enqueued is select-entry:<that
\* id>; with the cursor unset, the view empty or the cursor past the end of
\* the view, it enqueues nothing and changes no state.
C20_ConfirmSelectsFocused ==
    [][EnterStep =>
        LET view == FilteredView(entries, search) IN
        IF focused_index # None /\ Unwrap(focused_index) < Len(view)
        THEN LET id == view[Unwrap(focused_index) + 1].id IN
             /\ last'.call = "select"
             /\ last'.id = id
             /\ cmdOpen => sent' = Append(sent, ExpectedCommand("select", id))
        ELSE /\ OnlyCursorMay
             /\ focused_index' = focused_index]_vars

\* Confirm with the cursor on the second row selected the id of that row.
C20_Witness ==
    /\ last.op = "enter"
    /\ last.call = "select"
    /\ last.focused = Some(1)
    /\ last.id = last.entries[2].id
    /\ last.id # 1
    /\ sent[last.sent + 1] = ExpectedCommand("select", last.id)

\* Confirm with the cursor past the end of the view changed nothing.
C20_WitnessPastEnd ==
    /\ last.op = "enter"
    /\ last.call = "none"
    /\ last.entries # << >>
    /\ last.focused # None
    /\ Unwrap(last.focused) >= Len(last.entries)
    /\ entries = last.entries
    /\ focused_index = last.focused

\* How many entries of es carry the id.
CountId(es, id) == Cardinality({i \in 1..Len(es) : es[i].id = id})

\* C21: over every sequence of actions the UI offers, remove-entry:1 is
\* never enqueued nor written, remove is never called on the reserved id 1,
\* and a remove call leaves every entry of id 1 in the snapshot.
C21_ReservedIdNeverRemoved ==
    /\ \A i \in 1..Len(sent) : sent[i] # "remove-entry:1"
    /\ \A i \in 1..Len(cmdQ) : cmdQ[i] # "remove-entry:1"
    /\ \A i \in 1..Len(written) : written[i] # "remove-entry:1"
    /\ last.call = "remove"
           => /\ last.id # CURRENT_ENTRY_ID
              /\ CountId(entries, CURRENT_ENTRY_ID)
                     = CountId(last.entries, CURRENT_ENTRY_ID)

\* remove was called on another row of a snapshot that holds the entry of
\* id 1, and that entry is still there.
C21_Witness ==
    /\ last.call = "remove"
    /\ CountId(last.entries, CURRENT_ENTRY_ID) = 1
    /\ CountId(entries, CURRENT_ENTRY_ID) = 1
    /\ Len(entries) < Len(last.entries)

\* A turn of poll's loop: one message is drained and applied.
RecvStep == applied' # applied

\* poll returns.
ReturnStep == last' # last /\ last'.op = "render"

\* C22: poll starts with nothing to report; a drained message that replaces
\* the snapshot (Entries) or enqueues a refresh (SelectSuccess,
\* RemoveSuccess, Success, Ready) makes the report true; a drained message
\* that leaves snapshot, cursor and command queue untouched (Unknown)
\* leaves the report as it was, so a poll that drains only such messages,
\* or none, returns false; and poll returns what it has to report, with the
\* message queue observed empty.
C22_PollReportsChange ==
    /\ [](pc # "poll" => ~updated)
    /\ [][RecvStep =>
            LET msg == applied'[Len(applied')] IN
            IF msg.tag = "Unknown"
            THEN /\ UNCHANGED << entries, focused_index, cmdQ, sent >>
                 /\ updated' = updated
            ELSE updated' = TRUE]_vars
    /\ [][ReturnStep => /\ last'.result = (pc = "poll" /\ updated)
                        /\ backend => msgQ = << >>]_vars

\* remove(r) was called as the k-th send and its command has not been
\* written to the backend: whatever the backend has emitted so far, it
\* emitted before it processed that command.
RemoveNotYetProcessed(r, k) ==
    /\ k \in 1..Len(sent)
    /\ sent[k] = remove_command(r)
    /\ Len(written) < k

\* C23 (as stated): after remove(id) the snapshot does not contain id again
\* before the reply to that remove's own get-entries is drained; in
\* particular, while the backend has not yet processed remove-entry:<id>,
\* no Entries push it has emitted brings the removed entry back.
C23_StalePushCannotRestore ==
    \A r \in Ids : \A k \in 1..Len(sent) :
        RemoveNotYetProcessed(r, k) => r \notin IdsOf(entries)

\* C23 (amended): when remove(id) returns, the snapshot holds no entry with
\* that id, and a removed id comes back into the snapshot only by poll
\* draining an Entries push that contains it, whichever push that is.
C23_RemovedUntilNextPush ==
    /\ [](last.call = "remove" => last.id \notin IdsOf(entries))
    /\ [][\A r \in Ids :
            (/\ \E k \in 1..Len(sent) : sent[k] = remove_command(r)
             /\ r \notin IdsOf(entries)
             /\ r \in IdsOf(entries'))
            => /\ RecvStep
               /\ applied'[Len(applied')].tag = "Entries"
               /\ r \in IdsOf(applied'[Len(applied')].data)]_vars

\* C23: remove(id) returned, its command is still unwritten, and a push the
\* backend emitted earlier has been drained and put the entry back.
C23_Witness ==
    /\ DrainedEntries
    /\ \E r \in Ids : \E k \in 1..Len(sent) :
          /\ RemoveNotYetProcessed(r, k)
          /\ r \notin IdsOf(last.entries)
          /\ r \in IdsOf(entries)

\* C24: when poll drains an Entries push and the cursor is still smaller
\* than the length of the newly filtered view, the cursor keeps its numeric
\* value, whatever entry now sits at that position.
C24_CursorKeepsPosition ==
    (/\ DrainedEntries
     /\ last.focused # None
     /\ Unwrap(last.focused) < Len(FilteredView(entries, search)))
        => focused_index = last.focused

\* C24: a push was drained with the cursor in range, the entry under the
\* cursor is now a different one, and the entry that was under it is still
\* in the view at another position.
C24_Witness ==
    /\ DrainedEntries
    /\ last.focused # None
    /\ focused_index = last.focused
    /\ LET i == Unwrap(last.focused) + 1
           before == FilteredView(last.entries, search)
           after == FilteredView(entries, search)
       IN /\ i <= Len(before)
          /\ i <= Len(after)
          /\ before[i].id # after[i].id
          /\ \E j \in 1..Len(after) : j # i /\ after[j].id = before[i].id

=============================================================================
